---- MODULE Spec2Model ----
(***************************************************************************)
(* Model of the obligation-discovery pipeline of src/src/scraper/scraper.js *)
(* (Red Tape Navigator): postcode -> state resolution, the Selenium session *)
(* scope, the ABLIS queries, result parsing, de-duplication, grouping and   *)
(* the POST /scrape handler.                                                *)
(*                                                                          *)
(* JavaScript strings are sequences of one-character strings, so that       *)
(* template literals, parseInt, toLowerCase and includes are computed       *)
(* rather than assumed.  The JavaScript values undefined and null are the   *)
(* one-element sequences Undefined and Null, whose single element is not a  *)
(* character.                                                               *)
(***************************************************************************)
EXTENDS Integers, Sequences, FiniteSets, TLC

VARIABLES run, calc

vars == <<run, calc>>

(***************************************************************************)
(* JavaScript values                                                        *)
(***************************************************************************)
Undefined == <<"UNDEFINED">>
Null == <<"NULL">>

\* !x for the values of the model: undefined, null and "" are falsy.
Falsy(x) == x = Undefined \/ x = Null \/ x = <<>>
Truthy(x) == ~Falsy(x)

\* x || y
OrElse(x, y) == IF Truthy(x) THEN x ELSE y

\* `${x}` / String(x) of a string, null or undefined.
ToStr(x) ==
  IF x = Null THEN <<"n", "u", "l", "l">>
  ELSE IF x = Undefined THEN <<"u", "n", "d", "e", "f", "i", "n", "e", "d">>
  ELSE x

Digits == <<"0", "1", "2", "3", "4", "5", "6", "7", "8", "9">>
DigitSet == {Digits[i] : i \in 1..10}
DigitVal(c) == (CHOOSE i \in 1..10 : Digits[i] = c) - 1

WhiteSpace == {" ", "\n", "\t"}

UpperCase == <<"A", "B", "C", "D", "E", "F", "G", "H", "I", "J", "K", "L", "M",
               "N", "O", "P", "Q", "R", "S", "T", "U", "V", "W", "X", "Y", "Z">>
LowerCase == <<"a", "b", "c", "d", "e", "f", "g", "h", "i", "j", "k", "l", "m",
               "n", "o", "p", "q", "r", "s", "t", "u", "v", "w", "x", "y", "z">>

\* String.prototype.toLowerCase
LowerChar(c) ==
  IF \E i \in 1..26 : UpperCase[i] = c
  THEN LowerCase[CHOOSE i \in 1..26 : UpperCase[i] = c]
  ELSE c
ToLowerCase(s) == [i \in 1..Len(s) |-> LowerChar(s[i])]

\* String.prototype.includes
Includes(s, sub) ==
  \E i \in 0..(Len(s) - Len(sub)) : SubSeq(s, i + 1, i + Len(sub)) = sub

\* String(n) of a non-negative integer.
RECURSIVE NumToString(_)
NumToString(n) ==
  IF n < 10 THEN <<Digits[n + 1]>>
  ELSE NumToString(n \div 10) \o <<Digits[(n % 10) + 1]>>

(***************************************************************************)
(* Postcode to state map (scraper.js 55-67)                                 *)
(***************************************************************************)
\* Number of leading white-space characters of s.
RECURSIVE LeadingSpaces(_)
LeadingSpaces(s) ==
  IF s # <<>> /\ Head(s) \in WhiteSpace THEN 1 + LeadingSpaces(Tail(s)) ELSE 0

\* Number of leading decimal digits of s.
RECURSIVE LeadingDigits(_)
LeadingDigits(s) ==
  IF s # <<>> /\ Head(s) \in DigitSet THEN 1 + LeadingDigits(Tail(s)) ELSE 0

RECURSIVE DigitsValue(_)
DigitsValue(s) ==
  IF s = <<>> THEN 0
  ELSE 10 * DigitsValue(SubSeq(s, 1, Len(s) - 1)) + DigitVal(s[Len(s)])

\* parseInt(s, 10): skips leading white space, takes an optional sign and the
\* longest prefix of decimal digits, and ignores whatever follows.  The result
\* is <<>> for NaN and <<n>> for the integer n.
ParseInt(s) ==
  LET t == SubSeq(s, LeadingSpaces(s) + 1, Len(s))
      signed == t # <<>> /\ Head(t) \in {"+", "-"}
      u == IF signed THEN Tail(t) ELSE t
      k == LeadingDigits(u)
      v == DigitsValue(SubSeq(u, 1, k))
  IN IF k = 0 THEN <<>>
     ELSE IF signed /\ Head(t) = "-" THEN <<0 - v>> ELSE <<v>>

StateOfNumberShifted(n) ==
  IF (n >= 200 /\ n <= 299) \/ (n >= 2600 /\ n <= 2619) \/ (n >= 2900 /\ n <= 2999)
    THEN <<"A", "C", "T">>
  ELSE IF n >= 800 /\ n <= 899 THEN <<"N", "T">>
  ELSE IF (n >= 1000 /\ n <= 2599) \/ (n >= 2619 /\ n <= 2898) THEN <<"N", "S", "W">>
  ELSE IF n >= 3000 /\ n <= 3999 THEN <<"V", "I", "C">>
  ELSE IF n >= 4000 /\ n <= 4999 THEN <<"Q", "L", "D">>
  ELSE IF n >= 5000 /\ n <= 5799 THEN <<"S", "A">>
  ELSE IF n >= 6000 /\ n <= 6799 THEN <<"W", "A">>
  ELSE IF n >= 7000 /\ n < 7799 THEN <<"T", "A", "S">>
  ELSE Null

\* The rule table with the NT range reaching into the first NSW range.
RuleOverlapping(k, n) ==
  CASE k = 1 -> IF (n >= 200 /\ n <= 299) \/ (n >= 2600 /\ n <= 2618) \/ (n >= 2900 /\ n <= 2999)
                THEN <<"A", "C", "T">> ELSE Null
    [] k = 2 -> IF n >= 800 /\ n <= 1099 THEN <<"N", "T">> ELSE Null
    [] k = 3 -> IF (n >= 1000 /\ n <= 2599) \/ (n >= 2619 /\ n <= 2898)
                THEN <<"N", "S", "W">> ELSE Null
    [] k = 4 -> IF n >= 3000 /\ n <= 3999 THEN <<"V", "I", "C">> ELSE Null
    [] k = 5 -> IF n >= 4000 /\ n <= 4999 THEN <<"Q", "L", "D">> ELSE Null
    [] k = 6 -> IF n >= 5000 /\ n <= 5799 THEN <<"S", "A">> ELSE Null
    [] k = 7 -> IF n >= 6000 /\ n <= 6799 THEN <<"W", "A">> ELSE Null
    [] k = 8 -> IF n >= 7000 /\ n <= 7799 THEN <<"T", "A", "S">> ELSE Null

\* The k-th if statement of lines 58-65 taken alone: the state it returns when
\* its condition holds for n, null when it does not.
Rule(k, n) ==
  CASE k = 1 -> IF (n >= 200 /\ n <= 299) \/ (n >= 2600 /\ n <= 2618) \/ (n >= 2900 /\ n <= 2999)
                THEN <<"A", "C", "T">> ELSE Null
    [] k = 2 -> IF n >= 800 /\ n <= 899 THEN <<"N", "T">> ELSE Null
    [] k = 3 -> IF (n >= 1000 /\ n <= 2599) \/ (n >= 2619 /\ n <= 2898)
                THEN <<"N", "S", "W">> ELSE Null
    [] k = 4 -> IF n >= 3000 /\ n <= 3999 THEN <<"V", "I", "C">> ELSE Null
    [] k = 5 -> IF n >= 4000 /\ n <= 4999 THEN <<"Q", "L", "D">> ELSE Null
    [] k = 6 -> IF n >= 5000 /\ n <= 5799 THEN <<"S", "A">> ELSE Null
    [] k = 7 -> IF n >= 6000 /\ n <= 6799 THEN <<"W", "A">> ELSE Null
    [] k = 8 -> IF n >= 7000 /\ n <= 7799 THEN <<"T", "A", "S">> ELSE Null

\* The chain of range tests of lines 58-66, first match wins.
StateOfNumber(n) ==
  IF (n >= 200 /\ n <= 299) \/ (n >= 2600 /\ n <= 2618) \/ (n >= 2900 /\ n <= 2999)
    THEN <<"A", "C", "T">>
  ELSE IF n >= 800 /\ n <= 899 THEN <<"N", "T">>
  ELSE IF (n >= 1000 /\ n <= 2599) \/ (n >= 2619 /\ n <= 2898) THEN <<"N", "S", "W">>
  ELSE IF n >= 3000 /\ n <= 3999 THEN <<"V", "I", "C">>
  ELSE IF n >= 4000 /\ n <= 4999 THEN <<"Q", "L", "D">>
  ELSE IF n >= 5000 /\ n <= 5799 THEN <<"S", "A">>
  ELSE IF n >= 6000 /\ n <= 6799 THEN <<"W", "A">>
  ELSE IF n >= 7000 /\ n <= 7799 THEN <<"T", "A", "S">>
  ELSE Null

mapStateFromPostcode(pcode) ==
  LET n == ParseInt(ToStr(pcode))
  IN IF n = <<>> THEN Null ELSE StateOfNumber(n[1])

(***************************************************************************)
(* Target sources (scraper.js 46-51)                                        *)
(***************************************************************************)
ABLIS_ORIGIN ==
  <<"h", "t", "t", "p", "s", ":", "/", "/", "a", "b", "l", "i", "s", ".", "b", "u", "s", "i",
    "n", "e", "s", "s", ".", "g", "o", "v", ".", "a", "u">>

SOURCES ==
  [ABLIS_ACTIVITY |->
     <<"h", "t", "t", "p", "s", ":", "/", "/", "a", "b", "l", "i", "s", ".", "b", "u", "s", "i",
       "n", "e", "s", "s", ".", "g", "o", "v", ".", "a", "u", "/", "s", "e", "a", "r", "c",
       "h", "/", "a", "c", "t", "i", "v", "i", "t", "y">>,
   ABLIS_HOME |->
     <<"h", "t", "t", "p", "s", ":", "/", "/", "a", "b", "l", "i", "s", ".", "b", "u", "s", "i",
       "n", "e", "s", "s", ".", "g", "o", "v", ".", "a", "u", "/">>,
   ABS_ASGS_LGA |->
     <<"h", "t", "t", "p", "s", ":", "/", "/", "w", "w", "w", ".", "a", "b", "s", ".", "g", "o",
       "v", ".", "a", "u", "/", "s", "t", "a", "t", "i", "s", "t", "i", "c", "s", "/", "s",
       "t", "a", "n", "d", "a", "r", "d", "s", "/", "a", "u", "s", "t", "r", "a", "l", "i",
       "a", "n", "-", "s", "t", "a", "t", "i", "s", "t", "i", "c", "a", "l", "-", "g", "e",
       "o", "g", "r", "a", "p", "h", "y", "-", "s", "t", "a", "n", "d", "a", "r", "d", "-",
       "a", "s", "g", "s", "-", "e", "d", "i", "t", "i", "o", "n", "-", "3", "/", "j", "u",
       "l", "2", "0", "2", "1", "-", "j", "u", "n", "2", "0", "2", "6", "/", "n", "o", "n",
       "-", "a", "b", "s", "-", "s", "t", "r", "u", "c", "t", "u", "r", "e", "s", "/", "l",
       "o", "c", "a", "l", "-", "g", "o", "v", "e", "r", "n", "m", "e", "n", "t", "-", "a",
       "r", "e", "a", "s", "#", "l", "g", "a", "-", "n", "a", "m", "e", "-", "c", "r", "i",
       "t", "e", "r", "i", "a">>]

\* SOURCES.k: a property the object does not have reads as undefined.
SourcesGet(k) == IF k \in DOMAIN SOURCES THEN SOURCES[k] ELSE Undefined

\* Whether [...v] can spread v: undefined and null are not iterable.
Iterable(v) == v # Undefined /\ v # Null

(***************************************************************************)
(* Text helpers of the parser (scraper.js 180-190)                          *)
(***************************************************************************)
\* Index of the first ">" of s after position 1, or 0.
FirstGt(s) ==
  IF \E j \in 2..Len(s) : s[j] = ">"
  THEN CHOOSE j \in 2..Len(s) : s[j] = ">" /\ \A k \in 2..(j - 1) : s[k] # ">"
  ELSE 0

\* s.replace(/<[^>]+>/g, " ")
RECURSIVE StripTags(_)
StripTags(s) ==
  IF s = <<>> THEN <<>>
  ELSE IF Head(s) = "<" /\ FirstGt(s) >= 3
    THEN <<" ">> \o StripTags(SubSeq(s, FirstGt(s) + 1, Len(s)))
  ELSE <<Head(s)>> \o StripTags(Tail(s))

\* s.replace(/\s+/g, " ")
RECURSIVE CollapseSpaces(_)
CollapseSpaces(s) ==
  IF s = <<>> THEN <<>>
  ELSE IF Head(s) \in WhiteSpace
    THEN <<" ">> \o CollapseSpaces(SubSeq(s, LeadingSpaces(s) + 1, Len(s)))
  ELSE <<Head(s)>> \o CollapseSpaces(Tail(s))

\* s.trim() of a string whose white space is already collapsed.
Trim(s) ==
  LET a == IF s # <<>> /\ Head(s) \in WhiteSpace THEN Tail(s) ELSE s
  IN IF a # <<>> /\ a[Len(a)] \in WhiteSpace THEN SubSeq(a, 1, Len(a) - 1) ELSE a

clean(s) == IF Falsy(s) THEN Null ELSE Trim(CollapseSpaces(StripTags(s)))

\* The rewriting of linkHref: a site-relative href gets the site origin.
linkHref(href) ==
  IF Truthy(href) /\ Head(href) = "/" THEN ABLIS_ORIGIN \o href ELSE href

(***************************************************************************)
(* De-duplication (scraper.js 191-201)                                      *)
(***************************************************************************)
\* A de-duplication in which a later element replaces the kept one of its key.
dedupeByKeepLast(arr, keys) ==
  LET kept == {i \in 1..Len(arr) : \A j \in (i + 1)..Len(arr) : keys[j] # keys[i]}
      pick[i \in 0..Len(arr)] ==
        IF i = 0 THEN <<>>
        ELSE IF i \in kept THEN Append(pick[i - 1], arr[i]) ELSE pick[i - 1]
  IN pick[Len(arr)]

\* The loop stopping one element short of the end of arr.
dedupeByOffByOne(arr, keys) ==
  LET step[i \in 0..Len(arr)] ==
        IF i = 0 THEN [seen |-> {}, out |-> <<>>]
        ELSE IF keys[i] \in step[i - 1].seen THEN step[i - 1]
             ELSE [seen |-> step[i - 1].seen \cup {keys[i]},
                   out |-> Append(step[i - 1].out, arr[i])]
  IN step[IF Len(arr) = 0 THEN 0 ELSE Len(arr) - 1].out

\* The loop of dedupeBy: seen is the Set of keys, out the kept elements;
\* keys[i] is keyFn(arr[i]).
dedupeBy(arr, keys) ==
  LET step[i \in 0..Len(arr)] ==
        IF i = 0 THEN [seen |-> {}, out |-> <<>>]
        ELSE IF keys[i] \in step[i - 1].seen THEN step[i - 1]
             ELSE [seen |-> step[i - 1].seen \cup {keys[i]},
                   out |-> Append(step[i - 1].out, arr[i])]
  IN step[Len(arr)].out

\* The key of lines 171, 235 and 306: `${r.obligation}|${r.regulator}|${r.source_url}`
RecordKey(r) ==
  ToStr(r.obligation) \o <<"|">> \o ToStr(r.regulator) \o <<"|">> \o ToStr(r.source_url)

\* dedupeBy with the record key, as lines 171, 235 and 306 call it.
DedupeRecords(items) == dedupeBy(items, [i \in 1..Len(items) |-> RecordKey(items[i])])

(***************************************************************************)
(* Result parsing (scraper.js 129-172).  A chunk is what the patterns of    *)
(* lines 137-140 capture from one piece of the split page: title, agency,   *)
(* level (null when the pattern does not match) and the href of the first   *)
(* anchor (null when there is none).                                        *)
(***************************************************************************)
KwCouncil == <<"c", "o", "u", "n", "c", "i", "l">>
KwShire == <<"s", "h", "i", "r", "e">>
KwCityOf == <<"c", "i", "t", "y", " ", "o", "f">>
KwState == <<"s", "t", "a", "t", "e">>
KwCommonwealth == <<"c", "o", "m", "m", "o", "n", "w", "e", "a", "l", "t", "h">>
KwFederal == <<"f", "e", "d", "e", "r", "a", "l">>
KwLocal == <<"l", "o", "c", "a", "l">>

\* The inference with the title looked at before the agency.
InferLevelTitleFirst(cleanLevel, cleanAgency, cleanTitle) ==
  LET l1 == IF Falsy(cleanLevel) /\ Truthy(cleanTitle)
            THEN IF Includes(ToLowerCase(cleanTitle), KwState) THEN KwState
                 ELSE IF \/ Includes(ToLowerCase(cleanTitle), KwCommonwealth)
                         \/ Includes(ToLowerCase(cleanTitle), KwFederal) THEN KwFederal
                 ELSE cleanLevel
            ELSE cleanLevel
  IN IF Falsy(l1) /\ Truthy(cleanAgency)
        /\ (\/ Includes(ToLowerCase(cleanAgency), KwCouncil)
            \/ Includes(ToLowerCase(cleanAgency), KwShire)
            \/ Includes(ToLowerCase(cleanAgency), KwCityOf))
     THEN KwLocal ELSE l1

\* Lines 149-159: the level inferred when the chunk has no level label.
InferLevel(cleanLevel, cleanAgency, cleanTitle) ==
  LET l1 == IF Falsy(cleanLevel) /\ Truthy(cleanAgency)
               /\ (\/ Includes(ToLowerCase(cleanAgency), KwCouncil)
                   \/ Includes(ToLowerCase(cleanAgency), KwShire)
                   \/ Includes(ToLowerCase(cleanAgency), KwCityOf))
            THEN KwLocal ELSE cleanLevel
  IN IF Falsy(l1) /\ Truthy(cleanTitle)
     THEN IF Includes(ToLowerCase(cleanTitle), KwState) THEN KwState
          ELSE IF \/ Includes(ToLowerCase(cleanTitle), KwCommonwealth)
                  \/ Includes(ToLowerCase(cleanTitle), KwFederal) THEN KwFederal
          ELSE l1
     ELSE l1

\* The item with the activity and postcode arguments stored in each other's field.
ItemOfSwapsActivity(chunk, activity, postcode) ==
  LET link == linkHref(chunk.href)
      cleanTitle == clean(chunk.title)
      cleanAgency == clean(chunk.agency)
      cleanLevel == InferLevel(clean(chunk.level), cleanAgency, cleanTitle)
  IN [level |-> OrElse(cleanLevel, Null),
      regulator |-> OrElse(cleanAgency, Null),
      obligation |-> OrElse(cleanTitle, Null),
      source_url |-> OrElse(link, SOURCES.ABLIS_HOME),
      activity |-> postcode,
      postcode |-> activity]

\* Lines 144-168: the item pushed for one chunk that is not skipped.
ItemOf(chunk, activity, postcode) ==
  LET link == linkHref(chunk.href)
      cleanTitle == clean(chunk.title)
      cleanAgency == clean(chunk.agency)
      cleanLevel == InferLevel(clean(chunk.level), cleanAgency, cleanTitle)
  IN [level |-> OrElse(cleanLevel, Null),
      regulator |-> OrElse(cleanAgency, Null),
      obligation |-> OrElse(cleanTitle, Null),
      source_url |-> OrElse(link, SOURCES.ABLIS_HOME),
      activity |-> activity,
      postcode |-> postcode]

\* Line 142: a chunk with no title, no agency and no link is skipped.
Skipped(chunk) == Falsy(chunk.title) /\ Falsy(chunk.agency) /\ Falsy(linkHref(chunk.href))

RECURSIVE ItemsOf(_, _, _)
ItemsOf(chunks, activity, postcode) ==
  IF chunks = <<>> THEN <<>>
  ELSE IF Skipped(Head(chunks)) THEN ItemsOf(Tail(chunks), activity, postcode)
  ELSE <<ItemOf(Head(chunks), activity, postcode)>> \o ItemsOf(Tail(chunks), activity, postcode)

parseAblisResults(chunks, activity, postcode) ==
  DedupeRecords(ItemsOf(chunks, activity, postcode))

(***************************************************************************)
(* Grouping and summary (scraper.js 240-261)                                *)
(***************************************************************************)
\* The level compared as written, without toLowerCase.
LevelBucketCaseSensitive(it) ==
  LET lvl == OrElse(it.level, <<>>)
  IN IF Includes(lvl, KwLocal) THEN "local"
     ELSE IF Includes(lvl, KwState) THEN "state"
     ELSE IF Includes(lvl, KwFederal) \/ Includes(lvl, KwCommonwealth) THEN "federal"
     ELSE "unknown"

\* The tests of lines 244-247 as independent ifs, not an else-if chain.
groupByLevelNoElse(items) ==
  LET low(it) == ToLowerCase(OrElse(it.level, <<>>))
  IN [b \in {"local", "state", "federal", "unknown"} |->
        SelectSeq(items, LAMBDA it :
          CASE b = "local" -> Includes(low(it), KwLocal)
            [] b = "state" -> Includes(low(it), KwState)
            [] b = "federal" -> Includes(low(it), KwFederal) \/ Includes(low(it), KwCommonwealth)
            [] b = "unknown" -> ~(\/ Includes(low(it), KwLocal) \/ Includes(low(it), KwState)
                                  \/ Includes(low(it), KwFederal)
                                  \/ Includes(low(it), KwCommonwealth)))]

\* Lines 243-247: the bucket of one item.
LevelBucket(it) ==
  LET lvl == ToLowerCase(OrElse(it.level, <<>>))
  IN IF Includes(lvl, KwLocal) THEN "local"
     ELSE IF Includes(lvl, KwState) THEN "state"
     ELSE IF Includes(lvl, KwFederal) \/ Includes(lvl, KwCommonwealth) THEN "federal"
     ELSE "unknown"

groupByLevel(items) ==
  [b \in {"local", "state", "federal", "unknown"} |->
     SelectSeq(items, LAMBDA it : LevelBucket(it) = b)]

RegulatorIsLocal(it) ==
  LET reg == ToLowerCase(OrElse(it.regulator, <<>>))
  IN Includes(reg, KwCouncil) \/ Includes(reg, KwCityOf) \/ Includes(reg, KwShire)

\* The scan keeping the last match, not returning at the first.
tryInferLGALast(items) ==
  IF \E i \in 1..Len(items) : RegulatorIsLocal(items[i])
  THEN items[CHOOSE i \in 1..Len(items) :
               RegulatorIsLocal(items[i])
               /\ \A j \in (i + 1)..Len(items) : ~RegulatorIsLocal(items[j])].regulator
  ELSE Null

\* Lines 253-261.
tryInferLGA(items) ==
  IF \E i \in 1..Len(items) : RegulatorIsLocal(items[i])
  THEN items[CHOOSE i \in 1..Len(items) :
               RegulatorIsLocal(items[i]) /\ \A j \in 1..(i - 1) : ~RegulatorIsLocal(items[j])].regulator
  ELSE Null

(***************************************************************************)
(* Supplemental query plan (scraper.js 207-229, 294-302)                    *)
(*                                                                          *)
(* An optional object carries the field present; a schedules value is       *)
(* [isArray, length].                                                       *)
(***************************************************************************)
PhLiquor == <<"l", "i", "q", "u", "o", "r", " ", "l", "i", "c", "e", "n", "c", "e">>
PhRsa == <<"r", "e", "s", "p", "o", "n", "s", "i", "b", "l", "e", " ", "s", "e", "r", "v", "i", "c", "e", " ", "o", "f", " ", "a", "l", "c", "o", "h", "o", "l">>
PhMedicines == <<"s", "c", "h", "e", "d", "u", "l", "e", "d", " ", "m", "e", "d", "i", "c", "i", "n", "e", "s">>
PhPharmacy == <<"p", "h", "a", "r", "m", "a", "c", "y">>
PhPoisons == <<"p", "o", "i", "s", "o", "n", "s", " ", "p", "e", "r", "m", "i", "t">>
PhChemicals == <<"h", "a", "z", "a", "r", "d", "o", "u", "s", " ", "c", "h", "e", "m", "i", "c", "a", "l", "s">>
PhDangerous == <<"d", "a", "n", "g", "e", "r", "o", "u", "s", " ", "g", "o", "o", "d", "s">>

NoSchedules == [isArray |-> FALSE, length |-> 0]
EmptyArray == [isArray |-> TRUE, length |-> 0]

\* Lines 295-302: the flags object scrapeAll hands to supplementalQueries.
SupplementalFlags(cs) ==
  [alcohol |-> cs.alcohol,
   medicines |-> [present |-> TRUE,
                  dispense |-> cs.medicines.present /\ cs.medicines.dispense,
                  wholesale |-> cs.medicines.present /\ cs.medicines.wholesale,
                  storeOnly |-> cs.medicines.present /\ cs.medicines.storeOnly,
                  schedules |-> IF cs.schedules.isArray THEN cs.schedules ELSE EmptyArray],
   chemicals |-> cs.chemicals]

\* The flags of a category joined by && where lines 210, 215 and 223 have ||.
WantsAllFlags(flags) ==
  (IF flags.alcohol.present
      /\ (flags.alcohol.serveOnPremise /\ flags.alcohol.takeaway /\ flags.alcohol.brewOrDistil)
   THEN <<PhLiquor, PhRsa>> ELSE <<>>)
  \o
  (IF flags.medicines.present
      /\ (flags.medicines.dispense /\ flags.medicines.wholesale /\ flags.medicines.storeOnly)
   THEN <<PhMedicines, PhPharmacy>>
        \o (IF flags.medicines.schedules.isArray /\ flags.medicines.schedules.length > 0
            THEN <<PhPoisons>> ELSE <<>>)
   ELSE <<>>)
  \o
  (IF flags.chemicals.present
      /\ (flags.chemicals.manufacture /\ flags.chemicals.importOrExport
          /\ flags.chemicals.transport /\ flags.chemicals.store)
   THEN <<PhChemicals, PhDangerous>> ELSE <<>>)

\* Lines 208-226: the phrases pushed to wants.
Wants(flags) ==
  (IF flags.alcohol.present
      /\ (flags.alcohol.serveOnPremise \/ flags.alcohol.takeaway \/ flags.alcohol.brewOrDistil)
   THEN <<PhLiquor, PhRsa>> ELSE <<>>)
  \o
  (IF flags.medicines.present
      /\ (flags.medicines.dispense \/ flags.medicines.wholesale \/ flags.medicines.storeOnly)
   THEN <<PhMedicines, PhPharmacy>>
        \o (IF flags.medicines.schedules.isArray /\ flags.medicines.schedules.length > 0
            THEN <<PhPoisons>> ELSE <<>>)
   ELSE <<>>)
  \o
  (IF flags.chemicals.present
      /\ (flags.chemicals.manufacture \/ flags.chemicals.importOrExport
          \/ flags.chemicals.transport \/ flags.chemicals.store)
   THEN <<PhChemicals, PhDangerous>> ELSE <<>>)

\* Line 229: the phrases the loop of supplementalQueries iterates over; each
\* phrase is its own key.
PlannedPhrases(flags) == dedupeBy(Wants(flags), Wants(flags))

\* Line 232: { ...r, activity: q }
Retag(results, q) == [i \in 1..Len(results) |-> [results[i] EXCEPT !.activity = q]]

(***************************************************************************)
(* Requests and pages the model draws from                                  *)
(***************************************************************************)
NoAlcohol == [present |-> FALSE, serveOnPremise |-> FALSE, takeaway |-> FALSE,
              brewOrDistil |-> FALSE]
NoMedicines == [present |-> FALSE, dispense |-> FALSE, wholesale |-> FALSE,
                storeOnly |-> FALSE, schedules |-> NoSchedules]
NoChemicals == [present |-> FALSE, manufacture |-> FALSE, importOrExport |-> FALSE,
                transport |-> FALSE, store |-> FALSE]

\* controlledSubstances absent from the request.
CsAbsent == [present |-> FALSE, usesControlled |-> FALSE, alcohol |-> NoAlcohol,
             medicines |-> NoMedicines, chemicals |-> NoChemicals, schedules |-> NoSchedules]
\* { usesControlled: true } and nothing else.
CsNoFlags == [CsAbsent EXCEPT !.present = TRUE, !.usesControlled = TRUE]
\* { usesControlled: true, alcohol: { serveOnPremise: true } }
CsAlcohol == [CsNoFlags EXCEPT !.alcohol = [NoAlcohol EXCEPT !.present = TRUE,
                                                             !.serveOnPremise = TRUE]]
\* { usesControlled: false, alcohol: { serveOnPremise: true } }
CsSwitchedOff == [CsAlcohol EXCEPT !.usesControlled = FALSE]
\* { usesControlled: true, medicines: { dispense: true, schedules: ["S2", "S8"] } }
CsMedicinesNested ==
  [CsNoFlags EXCEPT !.medicines = [NoMedicines EXCEPT !.present = TRUE, !.dispense = TRUE,
                                     !.schedules = [isArray |-> TRUE, length |-> 2]]]
\* { usesControlled: true, medicines: { dispense: true }, schedules: ["S2"] }
CsMedicinesTop ==
  [CsNoFlags EXCEPT !.medicines = [NoMedicines EXCEPT !.present = TRUE, !.dispense = TRUE],
                    !.schedules = [isArray |-> TRUE, length |-> 1]]
\* { usesControlled: true, chemicals: { store: true } }
CsChemicals == [CsNoFlags EXCEPT !.chemicals = [NoChemicals EXCEPT !.present = TRUE,
                                                                   !.store = TRUE]]

ControlledVariants ==
  {CsAbsent, CsNoFlags, CsAlcohol, CsSwitchedOff, CsMedicinesNested, CsMedicinesTop, CsChemicals}

Pc3066 == <<"3", "0", "6", "6">>
Pc9999 == <<"9", "9", "9", "9">>
ActCafe == <<"C", "a", "f", "e">>
Code4511 == <<"4", "5", "1", "1">>

Request(pcode, act, code, cs) ==
  [postcode |-> pcode, activityDescription |-> act, anzsicCode |-> code,
   controlledSubstances |-> cs]

\* Bodies POST /scrape may receive: complete ones, and ones with a mandatory
\* field absent, null or empty.
Requests ==
  {Request(Pc3066, ActCafe, c, cs) : c \in {Undefined, Code4511}, cs \in ControlledVariants}
  \cup {Request(Pc9999, ActCafe, Undefined, CsAbsent), Request(Pc9999, ActCafe, Code4511, CsAlcohol)}
  \cup {Request(p, a, Undefined, CsAlcohol) :
          p \in {Undefined, Null, <<>>, Pc3066}, a \in {Undefined, Null, <<>>}}
  \cup {Request(p, ActCafe, Code4511, CsAbsent) : p \in {Undefined, Null, <<>>}}

Chunk(title, agency, level, href) ==
  [title |-> title, agency |-> agency, level |-> level, href |-> href]

TxFood == <<"F", "o", "o", "d", " ", "p", "e", "r", "m", "i", "t">>
TxCouncil == <<"Y", "a", "r", "r", "a", " ", "C", "o", "u", "n", "c", "i", "l">>
TxTax == <<"S", "t", "a", "t", "e", " ", "t", "a", "x">>
TxAB == <<"a", "|", "b">>
TxBC == <<"b", "|", "c">>
HrefFood == <<"/", "f">>
HrefX == <<"/", "x">>

\* What a page of the site may hold: the chunks of its markup.
PageNoCards == <<Chunk(Null, Null, Null, Null)>>
PageFood == <<Chunk(Null, Null, Null, Null), Chunk(TxFood, TxCouncil, Null, HrefFood)>>
PageFoodTax ==
  <<Chunk(TxFood, TxCouncil, Null, HrefFood), Chunk(TxTax, Null, Null, Null),
    Chunk(TxFood, TxCouncil, Null, HrefFood)>>
PageBars ==
  <<Chunk(TxAB, <<"c">>, Null, HrefX), Chunk(<<"a">>, TxBC, Null, HrefX)>>

Pages == {PageNoCards, PageFood, PageFoodTax, PageBars}

Controls == {"keyword", "location", "submit"}
\* Candidate selectors per control (scraper.js 92-94).
NumSelectors == 3

Runs == {1, 2}

(***************************************************************************)
(* State of one POST /scrape request (scraper.js 265-368)                   *)
(***************************************************************************)
Pending == [kind |-> "pending"]
Thrown(name, message) == [kind |-> "error", name |-> name, message |-> message]
Returned(v) == [kind |-> "value", value |-> v]

NoResponse == [status |-> 0]

QueryStages == {"primary", "anzsic", "supp"}

IdleRun ==
  [pc |-> "idle",
   input |-> Request(Undefined, Undefined, Undefined, CsAbsent),
   state |-> Null,
   session |-> "none",
   quits |-> 0,
   allItems |-> <<>>,
   raw |-> <<>>,
   plan |-> <<>>,
   idx |-> 0,
   extra |-> <<>>,
   q |-> <<>>,
   qstep |-> "idle",
   qwait |-> "none",
   log |-> <<>>,
   deduped |-> <<>>,
   groups |-> groupByLevel(<<>>),
   inferredLGA |-> Null,
   bodyOut |-> Pending,
   outcome |-> Pending,
   response |-> NoResponse]

NoCalc == [op |-> "none"]

LogEntry(ev, s, ok, recs) ==
  [ev |-> ev, stage |-> s.pc, q |-> s.q, ok |-> ok, recs |-> recs]

ConfidenceResolved ==
  "Location resolved by postcode to state. LGA inferred from regulator text if present."
ConfidenceUnresolved == "State could not be confidently resolved from postcode."

\* Line 274: the test that rejects a request.
MissingFieldPostcodeOnly(input) == Falsy(input.postcode)

MissingField(input) == Falsy(input.postcode) \/ Falsy(input.activityDescription)

\* withDriver without its try/finally: a throwing body skips driver.quit().
BodyEndsNoFinally(s, out) ==
  IF out.kind = "error" THEN [s EXCEPT !.pc = "respond", !.bodyOut = out, !.outcome = out]
  ELSE [s EXCEPT !.pc = "finally", !.bodyOut = out]

\* Lines 79-83: however fn(driver) ends, control passes to the finally block.
BodyEnds(s, out) == [s EXCEPT !.pc = "finally", !.bodyOut = out]

\* The merge with the de-duplication of line 306 left out.
MergedNoDedupe(s) ==
  LET d == s.allItems
  IN [s EXCEPT !.pc = "assemble", !.deduped = d, !.groups = groupByLevel(d),
               !.inferredLGA = tryInferLGA(d),
               !.log = Append(s.log, LogEntry("merge", s, TRUE, s.allItems))]

\* Lines 306-308.
Merged(s) ==
  LET d == DedupeRecords(s.allItems)
  IN [s EXCEPT !.pc = "assemble", !.deduped = d, !.groups = groupByLevel(d),
               !.inferredLGA = tryInferLGA(d),
               !.log = Append(s.log, LogEntry("merge", s, TRUE, s.allItems))]

\* Line 235 keeping, of the records of a key, the last one.
FinishSupplementalKeepLast(s) ==
  [s EXCEPT !.pc = "merge",
            !.allItems = s.allItems
                         \o dedupeByKeepLast(s.extra, [i \in 1..Len(s.extra) |-> RecordKey(s.extra[i])])]

\* Lines 228-235 once the loop over the phrases is over, and line 303.
FinishSupplemental(s) ==
  [s EXCEPT !.pc = "merge", !.allItems = s.allItems \o DedupeRecords(s.extra)]

\* Line 294 and the planning of lines 208-229.
EnterSupplemental(s) ==
  LET cs == s.input.controlledSubstances
      phrases == PlannedPhrases(SupplementalFlags(cs))
  IN IF cs.present /\ cs.usesControlled
     THEN IF phrases = <<>>
          THEN FinishSupplemental([s EXCEPT !.plan = phrases, !.extra = <<>>])
          ELSE [s EXCEPT !.pc = "supp", !.plan = phrases, !.idx = 1, !.extra = <<>>]
     ELSE [s EXCEPT !.pc = "merge"]

\* The ANZSIC-refined query left out: the supplemental step follows the primary query.
AfterPrimarySkipsAnzsic(s) == EnterSupplemental(s)

\* Line 287.
AfterPrimary(s) ==
  IF Truthy(s.input.anzsicCode) THEN [s EXCEPT !.pc = "anzsic"] ELSE EnterSupplemental(s)

\* What the caller of searchAblis does with the records of one query
\* (lines 283-284, 289-290, 230-233).
Collect(s, results) ==
  LET t == [s EXCEPT !.q = <<>>, !.qstep = "idle", !.qwait = "none"]
  IN CASE s.pc = "primary" -> AfterPrimary([t EXCEPT !.allItems = s.allItems \o results])
       [] s.pc = "anzsic" -> EnterSupplemental([t EXCEPT !.allItems = s.allItems \o results])
       [] s.pc = "supp" ->
            LET u == [t EXCEPT !.extra = s.extra \o Retag(results, s.q), !.idx = s.idx + 1]
            IN IF s.idx = Len(s.plan) THEN FinishSupplemental(u) ELSE u

QuerySucceeds(s, results) ==
  Collect([s EXCEPT !.log = Append(s.log, LogEntry("end", s, TRUE, results))], results)

\* A rejected searchAblis with no catch: the error leaves the body of withDriver.
QueryFailsUncaught(s) ==
  BodyEnds([s EXCEPT !.log = Append(s.log, LogEntry("end", s, FALSE, <<>>)),
                     !.q = <<>>, !.qstep = "idle", !.qwait = "none"],
           Thrown("Error", "query failed"))

\* A rejected searchAblis that is issued again.
QueryFailsRetry(s) ==
  [s EXCEPT !.log = Append(s.log, LogEntry("end", s, FALSE, <<>>)),
            !.q = <<>>, !.qstep = "idle", !.qwait = "none"]

\* .catch(() => []) of lines 230, 283 and 289: a rejected searchAblis counts as
\* no records.
QueryFails(s) ==
  Collect([s EXCEPT !.log = Append(s.log, LogEntry("end", s, FALSE, <<>>))], <<>>)

\* The keywords of the query of the current stage (lines 283, 288, 229).
QueryText(s) ==
  CASE s.pc = "primary" -> s.input.activityDescription
    [] s.pc = "anzsic" -> s.input.activityDescription \o <<" ">> \o s.input.anzsicCode
    [] s.pc = "supp" -> s.plan[s.idx]

\* Lines 336-349.
Result(s) ==
  [ok |-> TRUE,
   input |-> s.input,
   jurisdiction |-> [state |-> s.state, inferredLGA |-> s.inferredLGA],
   results |-> s.groups,
   confidence |-> IF Truthy(s.state) THEN ConfidenceResolved ELSE ConfidenceUnresolved]

(***************************************************************************)
(* Actions                                                                  *)
(***************************************************************************)
\* allItems as one module-level array shared by the requests, not the local of line 279.
SetSharedItems(r, s) ==
  /\ run' = [x \in Runs |-> IF x = r THEN s ELSE [run[x] EXCEPT !.allItems = s.allItems]]
  /\ UNCHANGED calc

\* The state a handler works on is local to its request (lines 266-279, 78).
Set(r, s) == run' = [run EXCEPT ![r] = s] /\ UNCHANGED calc

\* app.post("/scrape") calls scrapeAll(req.body) (line 363).
Receive(r) ==
  /\ run[r].pc = "idle"
  /\ \E req \in Requests : Set(r, [run[r] EXCEPT !.pc = "validate", !.input = req])

\* Lines 266-279.
Validate(r) ==
  LET s == run[r] IN
  /\ s.pc = "validate"
  /\ IF MissingField(s.input)
     THEN Set(r, [s EXCEPT !.pc = "respond",
                           !.outcome = Thrown("Error",
                              "postcode and activityDescription are required")])
     ELSE Set(r, [s EXCEPT !.pc = "build", !.state = mapStateFromPostcode(s.input.postcode),
                           !.allItems = <<>>])

\* Line 78: the browser session starts, or build() rejects before the try block.
Build(r) ==
  LET s == run[r] IN
  /\ s.pc = "build"
  /\ \/ Set(r, [s EXCEPT !.pc = "primary", !.session = "open"])
     \/ Set(r, [s EXCEPT !.pc = "respond",
                         !.outcome = Thrown("SessionNotCreatedError", "session not created")])

\* searchAblis is called with the keywords of the stage (lines 283, 289, 230).
StartQuery(r) ==
  LET s == run[r]
      t == [s EXCEPT !.q = QueryText(s), !.qstep = "get"]
  IN /\ s.pc \in QueryStages
     /\ s.qstep = "idle"
     /\ Set(r, [t EXCEPT !.log = Append(s.log, LogEntry("issue", t, TRUE, <<>>))])

\* Line 89: driver.get.  It rejects on a navigation error and on a session
\* that has crashed or crashes now.
QGet(r) ==
  LET s == run[r] IN
  /\ s.pc \in QueryStages
  /\ s.qstep = "get"
  /\ IF s.session = "crashed" THEN Set(r, QueryFails(s))
     ELSE \/ Set(r, [s EXCEPT !.qstep = "find"])
          \/ Set(r, QueryFails(s))
          \/ Set(r, QueryFails([s EXCEPT !.session = "crashed"]))

\* Lines 97-117: hit[c] is the first candidate selector of control c that
\* matches an element, 0 when none does.
QFind(r) ==
  LET s == run[r] IN
  /\ s.pc \in QueryStages
  /\ s.qstep = "find"
  /\ \E hit \in [Controls -> 0..NumSelectors] :
       IF \E c \in Controls : hit[c] = 0
       THEN Set(r, QueryFails(s))
       ELSE Set(r, [s EXCEPT !.qstep = "wait"])

\* driver.wait without its .catch: a timeout rejects searchAblis.
QWaitTimeoutRejects(r) ==
  LET s == run[r] IN
  /\ s.pc \in QueryStages
  /\ s.qstep = "wait"
  /\ \/ Set(r, [s EXCEPT !.qstep = "source", !.qwait = "indicator"])
     \/ Set(r, QueryFails([s EXCEPT !.qwait = "timeout"]))

\* Lines 120-123: a results indicator shows up, or the wait times out and the
\* rejection is swallowed.
QWait(r) ==
  LET s == run[r] IN
  /\ s.pc \in QueryStages
  /\ s.qstep = "wait"
  /\ \E w \in {"indicator", "timeout"} : Set(r, [s EXCEPT !.qstep = "source", !.qwait = w])

\* Lines 125-126: getPageSource and the parse of what it returns.  raw keeps the
\* items of lines 136-169 of every query, as they are before line 171.
QSource(r) ==
  LET s == run[r] IN
  /\ s.pc \in QueryStages
  /\ s.qstep = "source"
  /\ \/ \E page \in Pages :
          Set(r, QuerySucceeds([s EXCEPT !.raw = s.raw \o ItemsOf(page, s.q, s.input.postcode)],
                               parseAblisResults(page, s.q, s.input.postcode)))
     \/ Set(r, QueryFails(s))
     \/ Set(r, QueryFails([s EXCEPT !.session = "crashed"]))

\* Lines 306-308.
Merge(r) ==
  /\ run[r].pc = "merge"
  /\ Set(r, Merged(run[r]))

\* Lines 311-349: datasets_used spreads SOURCES.GOVHACK_LINKS, then the result
\* object is built and returned.
Assemble(r) ==
  LET s == run[r] IN
  /\ s.pc = "assemble"
  /\ IF Iterable(SourcesGet("GOVHACK_LINKS"))
     THEN Set(r, BodyEnds(s, Returned(Result(s))))
     ELSE Set(r, BodyEnds(s, Thrown("TypeError", "SOURCES.GOVHACK_LINKS is not iterable")))

\* Lines 81-83: driver.quit(), then the outcome of the body is the outcome of
\* withDriver and of scrapeAll.
Quit(r) ==
  LET s == run[r] IN
  /\ s.pc = "finally"
  /\ Set(r, [s EXCEPT !.pc = "respond", !.session = "closed", !.quits = s.quits + 1,
                      !.outcome = s.bodyOut])

\* Lines 362-367.
Respond(r) ==
  LET s == run[r] IN
  /\ s.pc = "respond"
  /\ IF s.outcome.kind = "value"
     THEN Set(r, [s EXCEPT !.pc = "done",
                           !.response = [status |-> 200, body |-> s.outcome.value]])
     ELSE Set(r, [s EXCEPT !.pc = "done",
                           !.response = [status |-> 400,
                                         body |-> [ok |-> FALSE,
                                                   error |-> [name |-> s.outcome.name,
                                                              message |-> s.outcome.message]]]])

Step(r) ==
  \/ Receive(r)
  \/ Validate(r)
  \/ Build(r)
  \/ StartQuery(r)
  \/ QGet(r)
  \/ QFind(r)
  \/ QWait(r)
  \/ QSource(r)
  \/ Merge(r)
  \/ Assemble(r)
  \/ Quit(r)
  \/ Respond(r)

Init ==
  /\ run = [r \in Runs |-> IdleRun]
  /\ calc = NoCalc

\* One request in flight.
Next == Step(1)

Spec == Init /\ [][Next]_vars

(***************************************************************************)
(* Two requests in flight: the handlers of the two POST /scrape requests    *)
(* interleave at every await (lines 363, 78, 82, 89-125).                   *)
(***************************************************************************)
PairRequests ==
  <<{Request(Pc3066, ActCafe, Undefined, CsAbsent)},
    {Request(Pc9999, ActCafe, Code4511, CsAbsent)}>>

ReceivePair(r) ==
  /\ run[r].pc = "idle"
  /\ \E req \in PairRequests[r] : Set(r, [run[r] EXCEPT !.pc = "validate", !.input = req])

StepPair(r) ==
  \/ ReceivePair(r)
  \/ Validate(r)
  \/ Build(r)
  \/ StartQuery(r)
  \/ QGet(r)
  \/ QFind(r)
  \/ QWait(r)
  \/ QSource(r)
  \/ Merge(r)
  \/ Assemble(r)
  \/ Quit(r)
  \/ Respond(r)

SpecPair == Init /\ [][\E r \in Runs : StepPair(r)]_vars

(***************************************************************************)
(* mapStateFromPostcode on its own: every postcode 0..MaxPostcode as the    *)
(* number and as the four-digit string, and every string of at most         *)
(* MaxPostcodeLen characters of PostcodeAlphabet.                           *)
(***************************************************************************)
MaxPostcode == 9999
MaxPostcodeLen == 5
PostcodeAlphabet == {"0", "3", "x", " ", "-"}

Pad4(n) ==
  LET d == NumToString(n)
  IN IF Len(d) >= 4 THEN d ELSE [i \in 1..(4 - Len(d)) |-> "0"] \o d

StringsUpTo(alphabet, maxLen) == UNION {[1..k -> alphabet] : k \in 0..maxLen}

PostcodeInputs ==
  {[text |-> NumToString(n), n |-> n] : n \in 0..MaxPostcode}
  \cup {[text |-> Pad4(n), n |-> n] : n \in 0..MaxPostcode}
  \cup {[text |-> s, n |-> 0 - 1] : s \in StringsUpTo(PostcodeAlphabet, MaxPostcodeLen)}

InitResolve ==
  /\ run = [r \in Runs |-> IdleRun]
  /\ \E i \in PostcodeInputs :
       calc = [op |-> "mapStateFromPostcode", in |-> i, out |-> Null, done |-> FALSE]

ResolveState ==
  /\ calc.op = "mapStateFromPostcode"
  /\ ~calc.done
  /\ calc' = [calc EXCEPT !.out = mapStateFromPostcode(calc.in.text), !.done = TRUE]
  /\ UNCHANGED run

NextResolve == ResolveState

SpecResolve == InitResolve /\ [][NextResolve]_vars

(***************************************************************************)
(* dedupeBy with the record key on its own: every list of at most           *)
(* MaxRecords records of DedupeUniverse.                                    *)
(***************************************************************************)
MaxRecords == 2

UrlU == ABLIS_ORIGIN \o <<"/", "u">>
UrlV == ABLIS_ORIGIN \o <<"/", "v">>

DedupeUniverse ==
  {[level |-> Null, regulator |-> g, obligation |-> o, source_url |-> u, activity |-> a,
    postcode |-> Pc3066] :
     o \in {Null, <<"a">>, TxAB, <<"n", "u", "l", "l">>},
     g \in {<<"c">>, TxBC},
     u \in {UrlU, UrlV},
     a \in {<<"p">>, <<"q">>}}

InitDedupe ==
  /\ run = [r \in Runs |-> IdleRun]
  /\ \E k \in 0..MaxRecords : \E x \in [1..k -> DedupeUniverse] :
       calc = [op |-> "dedupeBy", in |-> x, arr |-> x, out |-> <<>>, done |-> FALSE,
               out2 |-> <<>>, done2 |-> FALSE]

\* dedupeBy only reads arr (lines 194-195): the array it was given is left as is.
ArrayAfterDedupe(arr) == arr

\* deduped = dedupeBy(arr, key): in is the array as passed, arr the same array
\* object after the call.
Dedupe ==
  /\ calc.op = "dedupeBy"
  /\ ~calc.done
  /\ calc' = [calc EXCEPT !.out = DedupeRecords(calc.arr), !.arr = ArrayAfterDedupe(calc.arr),
                          !.done = TRUE]
  /\ UNCHANGED run

\* dedupeBy applied to its own result.
DedupeAgain ==
  /\ calc.op = "dedupeBy"
  /\ calc.done
  /\ ~calc.done2
  /\ calc' = [calc EXCEPT !.out2 = DedupeRecords(calc.out), !.done2 = TRUE]
  /\ UNCHANGED run

NextDedupe == Dedupe \/ DedupeAgain

SpecDedupe == InitDedupe /\ [][NextDedupe]_vars

(***************************************************************************)
(* groupByLevel and tryInferLGA on their own: every list of at most         *)
(* MaxItems records of GroupUniverse, resp. LgaUniverse.                    *)
(***************************************************************************)
MaxItems == 3

TxLocalCouncil == <<"L", "o", "c", "a", "l", " ", "C", "o", "u", "n", "c", "i", "l">>
TxSTATE == <<"S", "T", "A", "T", "E">>
TxFederal == <<"F", "e", "d", "e", "r", "a", "l">>
TxCommonwealth == <<"C", "o", "m", "m", "o", "n", "w", "e", "a", "l", "t", "h">>
TxLocalState == <<"l", "o", "c", "a", "l", " ", "s", "t", "a", "t", "e">>
TxCityOfX == <<"C", "I", "T", "Y", " ", "O", "F", " ", "X">>
TxBigShire == <<"B", "i", "g", " ", "S", "h", "i", "r", "e">>
TxEPA == <<"E", "P", "A">>

\* Records as parseAblisResults builds them (lines 161-168), over the levels a
\* page may label a card with.
GroupUniverse ==
  {[level |-> l, regulator |-> Null, obligation |-> o, source_url |-> UrlU,
    activity |-> ActCafe, postcode |-> Pc3066] :
     l \in {Null, TxLocalCouncil, TxSTATE, TxFederal, TxCommonwealth, TxLocalState, TxEPA},
     o \in {TxFood, TxTax}}

InitGroup ==
  /\ run = [r \in Runs |-> IdleRun]
  /\ \E k \in 0..MaxItems : \E x \in [1..k -> GroupUniverse] :
       calc = [op |-> "groupByLevel", in |-> x, out |-> groupByLevel(<<>>), done |-> FALSE]

\* groups = groupByLevel(items)
Group ==
  /\ calc.op = "groupByLevel"
  /\ ~calc.done
  /\ calc' = [calc EXCEPT !.out = groupByLevel(calc.in), !.done = TRUE]
  /\ UNCHANGED run

NextGroup == Group

SpecGroup == InitGroup /\ [][NextGroup]_vars

LgaUniverse ==
  {[level |-> Null, regulator |-> g, obligation |-> TxFood, source_url |-> UrlU,
    activity |-> ActCafe, postcode |-> Pc3066] :
     g \in {Null, TxCouncil, TxCityOfX, TxBigShire, TxEPA}}

InitLga ==
  /\ run = [r \in Runs |-> IdleRun]
  /\ \E k \in 0..MaxItems : \E x \in [1..k -> LgaUniverse] :
       calc = [op |-> "tryInferLGA", in |-> x, out |-> Null, done |-> FALSE]

\* inferredLGA = tryInferLGA(items)
InferLga ==
  /\ calc.op = "tryInferLGA"
  /\ ~calc.done
  /\ calc' = [calc EXCEPT !.out = tryInferLGA(calc.in), !.done = TRUE]
  /\ UNCHANGED run

NextLga == InferLga

SpecLga == InitLga /\ [][NextLga]_vars

(***************************************************************************)
(* The planning part of supplementalQueries on its own (lines 208-229):     *)
(* every flags object whose categories are absent or hold any combination   *)
(* of their flags, with schedules absent or of at most MaxSchedules entries.*)
(***************************************************************************)
MaxSchedules == 2

AlcoholVariants ==
  {NoAlcohol} \cup
  {[present |-> TRUE, serveOnPremise |-> a, takeaway |-> b, brewOrDistil |-> c] :
     a \in BOOLEAN, b \in BOOLEAN, c \in BOOLEAN}

SchedulesVariants == {NoSchedules} \cup {[isArray |-> TRUE, length |-> n] : n \in 0..MaxSchedules}

MedicinesVariants ==
  {NoMedicines} \cup
  {[present |-> TRUE, dispense |-> a, wholesale |-> b, storeOnly |-> c, schedules |-> s] :
     a \in BOOLEAN, b \in BOOLEAN, c \in BOOLEAN, s \in SchedulesVariants}

ChemicalsVariants ==
  {NoChemicals} \cup
  {[present |-> TRUE, manufacture |-> a, importOrExport |-> b, transport |-> c, store |-> d] :
     a \in BOOLEAN, b \in BOOLEAN, c \in BOOLEAN, d \in BOOLEAN}

InitPlan ==
  /\ run = [r \in Runs |-> IdleRun]
  /\ \E a \in AlcoholVariants, m \in MedicinesVariants, c \in ChemicalsVariants :
       calc = [op |-> "supplementalQueries",
               in |-> [alcohol |-> a, medicines |-> m, chemicals |-> c],
               out |-> <<>>, done |-> FALSE]

\* Lines 208-229: wants is filled and de-duplicated.
Plan ==
  /\ calc.op = "supplementalQueries"
  /\ ~calc.done
  /\ calc' = [calc EXCEPT !.out = PlannedPhrases(calc.in), !.done = TRUE]
  /\ UNCHANGED run

NextPlan == Plan

SpecPlan == InitPlan /\ [][NextPlan]_vars

(***************************************************************************)
(* parseAblisResults on its own: every page of at most MaxChunks chunks     *)
(* whose first anchor has any of the forms of href below, or is missing.    *)
(***************************************************************************)
MaxChunks == 2

HrefRelative == <<"g", ".", "h", "t", "m", "l">>
HrefFragment == <<"#", "t", "o", "p">>
HrefProtocolRelative == <<"/", "/", "c", "d", "n", ".", "a", "u", "/", "x">>
HrefAbsolute == <<"h", "t", "t", "p", "s", ":", "/", "/", "v", "i", "c", ".", "a", "u", "/", "x">>

\* What /<a[^>]+href="([^"]+)"/i captures (line 181), or null without a match.
Hrefs == {Null, HrefX, HrefRelative, HrefFragment, HrefProtocolRelative, HrefAbsolute}

\* A title such as <h3> </h3> captures white space only.
ExtractChunks ==
  {Chunk(ti, ag, Null, h) : ti \in {Null, TxFood, <<" ">>}, ag \in {Null, TxCouncil}, h \in Hrefs}

\* Cards with and without a level label, over titles and agencies with and
\* without the words of lines 152-158.
LevelChunks ==
  {Chunk(ti, ag, lv, HrefX) :
     ti \in {Null, TxFood, TxTax, TxFederal, TxCommonwealth, TxFederal \o <<" ">> \o TxSTATE},
     ag \in {Null, TxCouncil, TxBigShire, TxCityOfX, TxEPA},
     lv \in {Null, <<" ">>, TxSTATE, TxEPA}}

InitExtract ==
  /\ run = [r \in Runs |-> IdleRun]
  /\ \E x \in UNION {[1..k -> ExtractChunks] : k \in 0..MaxChunks}
                 \cup {<<c>> : c \in LevelChunks} :
       calc = [op |-> "parseAblisResults", in |-> x, out |-> <<>>, done |-> FALSE]

\* items = parseAblisResults(html, activity, postcode)
Extract ==
  /\ calc.op = "parseAblisResults"
  /\ ~calc.done
  /\ calc' = [calc EXCEPT !.out = parseAblisResults(calc.in, ActCafe, Pc3066), !.done = TRUE]
  /\ UNCHANGED run

NextExtract == Extract

SpecExtract == InitExtract /\ [][NextExtract]_vars

(***************************************************************************)
(* The title capture on its own (lines 137, 174-179).  A segment is the     *)
(* sequence of its elements in document order, each with its kind ("h3",    *)
(* "h2", "a.title" for a link whose class contains title, "p" for any other *)
(* element) and its inner text; at most MaxElements elements.               *)
(***************************************************************************)
MaxElements == 2

TitleElements ==
  {[kind |-> k, text |-> x] : k \in {"h3", "h2", "a.title", "p"},
                              x \in {<<>>, <<"A">>, <<"B">>}}

\* textBetween(raw, titlePattern): exec returns the match that starts leftmost
\* in the segment, whichever of the three alternatives it is; slice(1) holds
\* the capture of that alternative only, and filter(Boolean) drops an empty one.
textBetween(elems) ==
  LET hits == {i \in 1..Len(elems) : elems[i].kind \in {"h3", "h2", "a.title"}}
  IN IF hits = {} THEN Null
     ELSE LET m == CHOOSE i \in hits : \A j \in hits : i <= j
          IN IF elems[m].text = <<>> THEN Null ELSE elems[m].text

InitTitle ==
  /\ run = [r \in Runs |-> IdleRun]
  /\ \E k \in 0..MaxElements : \E x \in [1..k -> TitleElements] :
       calc = [op |-> "textBetween", in |-> x, out |-> Null, done |-> FALSE]

\* title = textBetween(raw, /<h3...|<h2...|<a...title.../i)
ExtractTitle ==
  /\ calc.op = "textBetween"
  /\ ~calc.done
  /\ calc' = [calc EXCEPT !.out = textBetween(calc.in), !.done = TRUE]
  /\ UNCHANGED run

SpecTitle == InitTitle /\ [][ExtractTitle]_vars

(***************************************************************************)
(* Properties                                                               *)
(***************************************************************************)
\* A mandatory field is missing: absent, null or empty.
FieldMissing(x) == x \in {Undefined, Null, <<>>}

ValidRequest(input) ==
  ~FieldMissing(input.postcode) /\ ~FieldMissing(input.activityDescription)

\* The run has left scrapeAll: its promise is settled.
Ended(s) == s.pc \in {"respond", "done"}

Acquired(s) == s.session # "none"

\* The queries of a run, in the order of the pipeline: the primary one, the
\* ANZSIC-refined one and the supplemental phrases.
ExpectedQueries(input) ==
  <<input.activityDescription>>
  \o (IF ~FieldMissing(input.anzsicCode)
      THEN <<input.activityDescription \o <<" ">> \o input.anzsicCode>> ELSE <<>>)
  \o (IF input.controlledSubstances.present /\ input.controlledSubstances.usesControlled
      THEN PlannedPhrases(SupplementalFlags(input.controlledSubstances)) ELSE <<>>)

Issued(log) == SelectSeq(log, LAMBDA e : e.ev = "issue")
EndedQueries(log) == SelectSeq(log, LAMBDA e : e.ev = "end")
IssuedTexts(log) == [i \in 1..Len(Issued(log)) |-> Issued(log)[i].q]

IsPrefix(a, b) == Len(a) <= Len(b) /\ a = SubSeq(b, 1, Len(a))

InSeq(x, seq) == \E i \in 1..Len(seq) : seq[i] = x

\* The records of the supplemental queries of a log, in the order produced.
RECURSIVE SupplementalRecords(_)
SupplementalRecords(log) ==
  IF log = <<>> THEN <<>>
  ELSE (IF Head(log).ev = "end" /\ Head(log).stage = "supp" THEN Head(log).recs ELSE <<>>)
       \o SupplementalRecords(Tail(log))

\* C1: for every request with postcode and activityDescription present whose
\* session was acquired, scrapeAll does not throw and returns a result with
\* ok = true, whatever subset of the queries fails or returns no records.
C1_DiscoverReturnsOk ==
  \A r \in Runs :
    (Ended(run[r]) /\ ValidRequest(run[r].input) /\ Acquired(run[r]))
      => (run[r].outcome.kind = "value" /\ run[r].outcome.value.ok)

C3_Isolation(s) ==
  /\ s.pc \in QueryStages \cup {"merge", "assemble", "finally"}
       => (s.session \in {"open", "crashed"} /\ s.quits = 0)
  /\ IsPrefix(IssuedTexts(s.log), ExpectedQueries(s.input))
  /\ \A i \in 1..Len(s.log) :
       (s.log[i].ev = "end" /\ ~s.log[i].ok) => s.log[i].recs = <<>>
  /\ (s.pc \in {"merge", "assemble", "finally"} \/ (Ended(s) /\ Acquired(s)))
       => /\ IssuedTexts(s.log) = ExpectedQueries(s.input)
          /\ Len(EndedQueries(s.log)) = Len(Issued(s.log))

\* C3 as stated: a failed query contributes no records for that query only,
\* the later queries still run, and every record any other query produced is
\* in the merged list allItems.
C3_Original ==
  \A r \in Runs :
    /\ C3_Isolation(run[r])
    /\ run[r].pc \in {"merge", "assemble", "finally"}
         => \A i \in 1..Len(run[r].log) :
              run[r].log[i].ev = "end"
                => \A k \in 1..Len(run[r].log[i].recs) :
                     InSeq(run[r].log[i].recs[k], run[r].allItems)

\* C3 amended: as C3, except that of the supplemental records only those whose
\* key no earlier supplemental record of the run has are in the merged list;
\* a later one with the same key is represented by that earlier record.
C3_FailureIsolated ==
  \A r \in Runs :
    /\ C3_Isolation(run[r])
    /\ run[r].pc \in {"merge", "assemble", "finally"}
         => /\ \A i \in 1..Len(run[r].log) :
                 (run[r].log[i].ev = "end" /\ run[r].log[i].stage # "supp")
                   => \A k \in 1..Len(run[r].log[i].recs) :
                        InSeq(run[r].log[i].recs[k], run[r].allItems)
            /\ LET sr == SupplementalRecords(run[r].log)
               IN \A k \in 1..Len(sr) :
                    \/ InSeq(sr[k], run[r].allItems)
                    \/ \E j \in 1..(k - 1) :
                         /\ RecordKey(sr[j]) = RecordKey(sr[k])
                         /\ InSeq(sr[j], run[r].allItems)

\* C3 witness: the primary query failed, the ANZSIC query and a supplemental
\* query produced records, and the merge is reached with the session open.
C3_Witness ==
  /\ run[1].pc = "assemble"
  /\ run[1].session = "open"
  /\ \E i, j, k \in 1..Len(run[1].log) :
       /\ i < j /\ j < k
       /\ run[1].log[i].ev = "end" /\ run[1].log[i].stage = "primary" /\ ~run[1].log[i].ok
       /\ run[1].log[j].ev = "end" /\ run[1].log[j].stage = "anzsic" /\ run[1].log[j].recs # <<>>
       /\ run[1].log[k].ev = "end" /\ run[1].log[k].stage = "supp" /\ run[1].log[k].recs # <<>>
  /\ run[1].allItems # <<>>

\* C4: when postcode or activityDescription is missing (absent, null or empty)
\* scrapeAll throws the validation error before the pipeline starts: no session
\* is acquired, no query is issued, and the request is answered with the error.
C4_ValidationFailsFast ==
  \A r \in Runs :
    (run[r].pc \notin {"idle", "validate"} /\ ~ValidRequest(run[r].input))
      => /\ Ended(run[r])
         /\ run[r].session = "none"
         /\ run[r].quits = 0
         /\ run[r].log = <<>>
         /\ run[r].allItems = <<>>
         /\ run[r].outcome.kind = "error"
         /\ run[r].outcome.message = "postcode and activityDescription are required"

\* C4 witness: a request with a postcode and no activityDescription was rejected.
C4_Witness ==
  /\ run[1].pc = "done"
  /\ run[1].input.postcode = Pc3066
  /\ run[1].input.activityDescription = Undefined
  /\ run[1].response.status = 400
  /\ run[1].session = "none"

\* C5: the queries of a run are issued one after another in the order primary,
\* ANZSIC-refined, supplemental phrases in plan order, all inside the one
\* session of the run: a query is issued only when the previous one has ended,
\* and the merge comes last, after every planned query has ended.
C5_Sequential ==
  \A r \in Runs :
    LET s == run[r]
        log == s.log
    IN /\ \A i \in 1..Len(log) :
            /\ log[i].ev = "issue" => (i = 1 \/ log[i - 1].ev = "end")
            /\ log[i].ev = "end"
                 => (i > 1 /\ log[i - 1].ev = "issue" /\ log[i - 1].q = log[i].q)
            /\ log[i].ev = "merge"
                 => /\ i = Len(log)
                    /\ i > 1 /\ log[i - 1].ev = "end"
                    /\ IssuedTexts(log) = ExpectedQueries(s.input)
       /\ IsPrefix(IssuedTexts(log), ExpectedQueries(s.input))
       /\ s.qstep # "idle"
            => /\ s.session \in {"open", "crashed"} /\ s.quits = 0
               /\ log # <<>> /\ log[Len(log)].ev = "issue" /\ log[Len(log)].q = s.q
       /\ (s.pc \in {"assemble", "finally"} \/ (Ended(s) /\ Acquired(s)))
            => (log # <<>> /\ log[Len(log)].ev = "merge")
       /\ s.pc = "merge" => (log # <<>> /\ log[Len(log)].ev = "end")

\* C5 witness: a run with an ANZSIC code and a supplemental plan has merged
\* after its four queries, the second of which failed.
C5_Witness ==
  /\ run[1].pc = "assemble"
  /\ Len(Issued(run[1].log)) = 4
  /\ run[1].log[3].stage = "anzsic" /\ run[1].log[4].ev = "end" /\ ~run[1].log[4].ok
  /\ run[1].log[5].stage = "supp"
  /\ run[1].log[Len(run[1].log)].ev = "merge"

\* The number of queries the request plans.
ExpectedCount(input) ==
  1 + (IF ~FieldMissing(input.anzsicCode) THEN 1 ELSE 0)
    + (IF input.controlledSubstances.present /\ input.controlledSubstances.usesControlled
       THEN Len(PlannedPhrases(SupplementalFlags(input.controlledSubstances))) ELSE 0)

\* C6: a run whose session was acquired issues exactly 1 + (1 if anzsicCode is
\* given) + (the number of planned phrases if usesControlled is set) queries:
\* never more, each planned query once and none again after it failed, and
\* exactly one for a request with no ANZSIC code and no controlled substances.
C6_QueryCount ==
  \A r \in Runs :
    LET s == run[r]
        n == Len(Issued(s.log))
    IN /\ n <= ExpectedCount(s.input)
       /\ \A i \in 1..n : Issued(s.log)[i].q = ExpectedQueries(s.input)[i]
       /\ (s.pc \in {"merge", "assemble", "finally"} \/ (Ended(s) /\ Acquired(s)))
            => /\ n = ExpectedCount(s.input)
               /\ (FieldMissing(s.input.anzsicCode) /\ ~s.input.controlledSubstances.usesControlled)
                    => n = 1

\* C6 witness: a run with an ANZSIC code and three planned phrases has ended
\* after five queries, one of which failed.
C6_Witness ==
  /\ run[1].pc = "done"
  /\ Acquired(run[1])
  /\ Len(Issued(run[1].log)) = 5
  /\ \E i \in 1..Len(run[1].log) : run[1].log[i].ev = "end" /\ ~run[1].log[i].ok

\* C7: the result returned for a valid request carries the resolved text
\* exactly when the postcode resolves to a state and the unresolved text
\* exactly when it does not, and in both cases the run returns a result whose
\* buckets hold the records the queries produced.
C7_ConfidenceOfResult ==
  \A r \in Runs :
    (Ended(run[r]) /\ ValidRequest(run[r].input) /\ Acquired(run[r]))
      => /\ run[r].outcome.kind = "value"
         /\ run[r].outcome.value.confidence =
              (IF mapStateFromPostcode(run[r].input.postcode) # Null
               THEN ConfidenceResolved ELSE ConfidenceUnresolved)
         /\ run[r].outcome.value.results = groupByLevel(run[r].deduped)

\* The range table of the claim.
C8_Table(n) ==
  IF n \in (200..299) \cup (2600..2618) \cup (2900..2999) THEN <<"A", "C", "T">>
  ELSE IF n \in 800..899 THEN <<"N", "T">>
  ELSE IF n \in (1000..2599) \cup (2619..2898) THEN <<"N", "S", "W">>
  ELSE IF n \in 3000..3999 THEN <<"V", "I", "C">>
  ELSE IF n \in 4000..4999 THEN <<"Q", "L", "D">>
  ELSE IF n \in 5000..5799 THEN <<"S", "A">>
  ELSE IF n \in 6000..6799 THEN <<"W", "A">>
  ELSE IF n \in 7000..7799 THEN <<"T", "A", "S">>
  ELSE Null

\* C8: for every integer postcode 0..MaxPostcode, given as the number or as the
\* four-digit string, mapStateFromPostcode returns the state of the range that
\* contains it and null when no range does.
C8_RangeTable ==
  (calc.op = "mapStateFromPostcode" /\ calc.done /\ calc.in.n >= 0)
    => calc.out = C8_Table(calc.in.n)

\* C8 witness: the postcode 2618, the last of an ACT range inside NSW, resolved.
C8_Witness ==
  /\ calc.op = "mapStateFromPostcode"
  /\ calc.done
  /\ calc.in.n = 2618
  /\ calc.out = <<"A", "C", "T">>

OnlyDigits(s) == s # <<>> /\ \A i \in 1..Len(s) : s[i] \in DigitSet

\* C9: mapStateFromPostcode returns null for every input string that is not
\* made of decimal digits only.
C9_NonNumericIsNull ==
  (calc.op = "mapStateFromPostcode" /\ calc.done /\ ~OnlyDigits(calc.in.text))
    => calc.out = Null

Triple(rec) == <<rec.obligation, rec.regulator, rec.source_url>>

\* C10: dedupe keeps, for every (obligation, regulator, source_url) triple of
\* its input, exactly one record: records with the same triple collapse to one
\* and records whose triples differ in any member all survive.
C10_TripleIdentity ==
  (calc.op = "dedupeBy" /\ calc.done)
    => \A i \in 1..Len(calc.in) :
         Cardinality({j \in 1..Len(calc.out) : Triple(calc.out[j]) = Triple(calc.in[i])}) = 1

\* The positions of x whose key no earlier position has.
FirstOfKey(x) ==
  {i \in 1..Len(x) : \A j \in 1..(i - 1) : RecordKey(x[j]) # RecordKey(x[i])}

\* The elements of x at the positions of the set at, in the order of x.
RECURSIVE Pick(_, _, _)
Pick(x, at, from) ==
  IF from > Len(x) THEN <<>>
  ELSE (IF from \in at THEN <<x[from]>> ELSE <<>>) \o Pick(x, at, from + 1)

\* C11: the output of dedupe is the subsequence of its input, in input order,
\* made of the first record of every key of the input and of no later record
\* of that key; the input list is left unmodified.
C11_FirstSeenSubsequence ==
  (calc.op = "dedupeBy" /\ calc.done)
    => /\ calc.out = Pick(calc.in, FirstOfKey(calc.in), 1)
       /\ \A i \in 1..Len(calc.in) :
            \E j \in 1..Len(calc.out) : RecordKey(calc.out[j]) = RecordKey(calc.in[i])
       /\ \A j, k \in 1..Len(calc.out) :
            RecordKey(calc.out[j]) = RecordKey(calc.out[k]) => j = k
       /\ calc.arr = calc.in

\* C11 witness: of two records with the same key and different activity the
\* first survived.
C11_Witness ==
  /\ calc.op = "dedupeBy"
  /\ calc.done
  /\ Len(calc.in) = 2
  /\ RecordKey(calc.in[1]) = RecordKey(calc.in[2])
  /\ calc.in[1] # calc.in[2]
  /\ calc.out = <<calc.in[1]>>

\* C12: dedupe is idempotent: dedupe(dedupe(x)) is dedupe(x), element by
\* element and in the same order.
C12_Idempotent ==
  (calc.op = "dedupeBy" /\ calc.done2) => calc.out2 = calc.out

\* C12 witness: dedupe was applied twice to a list from which the first
\* application had dropped a record.
C12_Witness ==
  /\ calc.op = "dedupeBy"
  /\ calc.done2
  /\ Len(calc.out) < Len(calc.in)
  /\ calc.out # <<>>
  /\ calc.out2 = calc.out


\* The run has executed the merge of lines 306-308.
HasMerged(s) == \E i \in 1..Len(s.log) : s.log[i].ev = "merge"

\* The records of the four buckets that lines 341-346 put in the result.
BucketRecords(g) == g["local"] \o g["state"] \o g["federal"] \o g["unknown"]

\* C13: in the buckets local, state, federal and unknown a run computes for its
\* result, no two records have the same (obligation, regulator, source_url)
\* triple, also when different queries of the run produced the same obligation.
C13_BucketsTripleUnique ==
  \A r \in Runs :
    HasMerged(run[r])
      => LET all == BucketRecords(run[r].groups)
         IN \A i, j \in 1..Len(all) : Triple(all[i]) = Triple(all[j]) => i = j

\* A merged run where the primary query and a supplemental query produced the
\* same obligation, which the buckets hold once.
C13_Witness ==
  \E r \in Runs :
    LET s == run[r] all == BucketRecords(s.groups) IN
    /\ HasMerged(s)
    /\ \E i, j \in 1..Len(s.log) :
         /\ s.log[i].ev = "end" /\ s.log[i].stage = "primary"
         /\ s.log[j].ev = "end" /\ s.log[j].stage = "supp"
         /\ \E a \in 1..Len(s.log[i].recs), b \in 1..Len(s.log[j].recs) :
              /\ Triple(s.log[i].recs[a]) = Triple(s.log[j].recs[b])
              /\ Cardinality({k \in 1..Len(all) :
                                Triple(all[k]) = Triple(s.log[i].recs[a])}) = 1


BucketNames == {"local", "state", "federal", "unknown"}

\* C14: groupByLevel partitions its input: every input record is in exactly one
\* of the buckets local, state, federal, unknown, no bucket holds a record that
\* is not in the input, the four bucket sizes add up to the input size, and
\* each bucket keeps the input's relative order.
C14_Partition ==
  (calc.op = "groupByLevel" /\ calc.done)
    => /\ \A i \in 1..Len(calc.in) :
            Cardinality({b \in BucketNames : InSeq(calc.in[i], calc.out[b])}) = 1
       /\ \A b \in BucketNames : \A k \in 1..Len(calc.out[b]) : InSeq(calc.out[b][k], calc.in)
       /\ Len(calc.out["local"]) + Len(calc.out["state"]) + Len(calc.out["federal"])
            + Len(calc.out["unknown"]) = Len(calc.in)
       /\ \A b \in BucketNames :
            calc.out[b] = SelectSeq(calc.in, LAMBDA x : InSeq(x, calc.out[b]))

\* A grouped list of MaxItems records that fills at least three buckets and
\* holds a level naming both 'local' and 'state'.
C14_Witness ==
  /\ calc.op = "groupByLevel" /\ calc.done
  /\ Len(calc.in) = MaxItems
  /\ Cardinality({b \in BucketNames : calc.out[b] # <<>>}) >= 3
  /\ \E i \in 1..Len(calc.in) : calc.in[i].level = TxLocalState

\* Case-insensitive substring test on a level that may be null.
LevelHas(level, kw) == level # Null /\ Includes(ToLowerCase(level), kw)

\* The bucket the rule of C15 names for a level.
C15_BucketOf(level) ==
  IF LevelHas(level, KwLocal) THEN "local"
  ELSE IF LevelHas(level, KwState) THEN "state"
  ELSE IF LevelHas(level, KwFederal) \/ LevelHas(level, KwCommonwealth) THEN "federal"
  ELSE "unknown"

\* C15: groupByLevel puts a record whose level contains 'local' (in any case)
\* in local, otherwise one containing 'state' in state, otherwise one containing
\* 'federal' or 'commonwealth' in federal, and every other one, a null level
\* included, in unknown; 'Local Council' lands in local.
C15_Classification ==
  (calc.op = "groupByLevel" /\ calc.done)
    => /\ \A i \in 1..Len(calc.in) :
            InSeq(calc.in[i], calc.out[C15_BucketOf(calc.in[i].level)])
       /\ \A b \in BucketNames : \A k \in 1..Len(calc.out[b]) :
            C15_BucketOf(calc.out[b][k].level) = b
       /\ \A i \in 1..Len(calc.in) :
            /\ calc.in[i].level = TxLocalCouncil => InSeq(calc.in[i], calc.out["local"])
            /\ calc.in[i].level = Null => InSeq(calc.in[i], calc.out["unknown"])
            /\ calc.in[i].level = TxSTATE => InSeq(calc.in[i], calc.out["state"])
            /\ calc.in[i].level \in {TxFederal, TxCommonwealth}
                 => InSeq(calc.in[i], calc.out["federal"])
            /\ calc.in[i].level = TxLocalState => InSeq(calc.in[i], calc.out["local"])

\* A grouped list with 'Local Council' in local, 'STATE' in state and a null
\* level in unknown.
C15_Witness ==
  /\ calc.op = "groupByLevel" /\ calc.done
  /\ \E k \in 1..Len(calc.out["local"]) : calc.out["local"][k].level = TxLocalCouncil
  /\ \E k \in 1..Len(calc.out["state"]) : calc.out["state"][k].level = TxSTATE
  /\ \E k \in 1..Len(calc.out["unknown"]) : calc.out["unknown"][k].level = Null

\* Case-insensitive test of a regulator, which may be null, for the three words.
C16_Matches(reg) ==
  /\ reg # Null
  /\ \E kw \in {KwCouncil, KwCityOf, KwShire} : Includes(ToLowerCase(reg), kw)

\* C16: tryInferLGA returns the regulator, unchanged, of the first record in
\* input order whose regulator contains 'council', 'city of' or 'shire' in any
\* case, and null when no record's regulator does (every regulator null and the
\* empty list included).
C16_FirstLocalRegulator ==
  (calc.op = "tryInferLGA" /\ calc.done)
    => IF \E i \in 1..Len(calc.in) : C16_Matches(calc.in[i].regulator)
       THEN \E i \in 1..Len(calc.in) :
              /\ C16_Matches(calc.in[i].regulator)
              /\ \A j \in 1..(i - 1) : ~C16_Matches(calc.in[j].regulator)
              /\ calc.out = calc.in[i].regulator
       ELSE calc.out = Null

\* A scanned list whose first record does not match and that holds two
\* matching regulators that differ; the first of them is returned.
C16_Witness ==
  /\ calc.op = "tryInferLGA" /\ calc.done
  /\ Len(calc.in) = 3
  /\ ~C16_Matches(calc.in[1].regulator)
  /\ calc.in[2].regulator = TxCityOfX
  /\ calc.in[3].regulator = TxCouncil
  /\ calc.out = TxCityOfX


\* The list C17 describes for the flags of a request.
C17_Expected(flags) ==
  (IF flags.alcohol.serveOnPremise \/ flags.alcohol.takeaway \/ flags.alcohol.brewOrDistil
   THEN <<PhLiquor, PhRsa>> ELSE <<>>)
  \o (IF flags.medicines.dispense \/ flags.medicines.wholesale \/ flags.medicines.storeOnly
      THEN <<PhMedicines, PhPharmacy>> ELSE <<>>)
  \o (IF flags.chemicals.manufacture \/ flags.chemicals.importOrExport
         \/ flags.chemicals.transport \/ flags.chemicals.store
      THEN <<PhChemicals, PhDangerous>> ELSE <<>>)

\* The flags { alcohol: { serveOnPremise: true } } and nothing else.
OnlyServeOnPremise(flags) ==
  /\ flags.alcohol = [NoAlcohol EXCEPT !.present = TRUE, !.serveOnPremise = TRUE]
  /\ flags.medicines = NoMedicines
  /\ flags.chemicals = NoChemicals

\* C17: the supplemental plan is, in this order and without duplicates, 'liquor
\* licence', 'responsible service of alcohol' if an alcohol flag is set, then
\* 'scheduled medicines', 'pharmacy' if a medicine flag is set, then 'hazardous
\* chemicals', 'dangerous goods' if a chemical flag is set ('poisons permit',
\* the addition for a schedules list, set aside); a category with no flag set
\* contributes nothing, and alcohol.serveOnPremise alone gives exactly
\* ['liquor licence', 'responsible service of alcohol'].
C17_PlanOfFlags ==
  (calc.op = "supplementalQueries" /\ calc.done)
    => /\ SelectSeq(calc.out, LAMBDA q : q # PhPoisons) = C17_Expected(calc.in)
       /\ (~calc.in.medicines.schedules.isArray \/ calc.in.medicines.schedules.length = 0)
            => calc.out = C17_Expected(calc.in)
       /\ \A i, j \in 1..Len(calc.out) : calc.out[i] = calc.out[j] => i = j
       /\ OnlyServeOnPremise(calc.in) => calc.out = <<PhLiquor, PhRsa>>

\* The plan of alcohol.serveOnPremise alone.
C17_Witness ==
  /\ calc.op = "supplementalQueries" /\ calc.done
  /\ OnlyServeOnPremise(calc.in)
  /\ calc.out = <<PhLiquor, PhRsa>>


\* The request nests a non-empty schedules list under medicines, with a
\* medicine flag set and usesControlled true.
NestedSchedulesRequest(input) ==
  LET cs == input.controlledSubstances IN
  /\ cs.present /\ cs.usesControlled
  /\ cs.medicines.present
  /\ (cs.medicines.dispense \/ cs.medicines.wholesale \/ cs.medicines.storeOnly)
  /\ cs.medicines.schedules.isArray /\ cs.medicines.schedules.length > 0

\* C18: a run whose request has usesControlled true, a medicine flag set and a
\* non-empty schedules list nested under medicines plans 'poisons permit' and
\* issues that query.
C18_PoisonsPermitIssued ==
  \A r \in Runs :
    (HasMerged(run[r]) /\ NestedSchedulesRequest(run[r].input))
      => /\ InSeq(PhPoisons, run[r].plan)
         /\ InSeq(PhPoisons, IssuedTexts(run[r].log))


\* C19: every record a supplemental query produced carries the phrase of that
\* query in its activity field, not the activityDescription of the request,
\* both as returned by the query and as collected by supplementalQueries; every
\* record the primary query produced carries the activityDescription.
C19_ActivityProvenance ==
  \A r \in Runs :
    LET s == run[r] IN
    /\ \A i \in 1..Len(s.log) :
         LET e == s.log[i] IN
         e.ev = "end"
           => \A k \in 1..Len(e.recs) :
                /\ e.stage = "supp"
                     => /\ InSeq(e.q, s.plan)
                        /\ e.recs[k].activity = e.q
                        /\ e.recs[k].activity # s.input.activityDescription
                /\ e.stage = "primary"
                     => e.recs[k].activity = s.input.activityDescription
    /\ \A k \in 1..Len(s.extra) :
         /\ s.extra[k].activity # s.input.activityDescription
         /\ \E i \in 1..Len(s.log) :
              /\ s.log[i].ev = "end" /\ s.log[i].stage = "supp"
              /\ s.log[i].q = s.extra[k].activity
              /\ \E j \in 1..Len(s.log[i].recs) : Triple(s.log[i].recs[j]) = Triple(s.extra[k])

\* A run whose primary query and whose two supplemental queries all produced
\* records.
C19_Witness ==
  \E r \in Runs :
    LET s == run[r] IN
    /\ \E i \in 1..Len(s.log) :
         s.log[i].ev = "end" /\ s.log[i].stage = "primary" /\ s.log[i].recs # <<>>
    /\ \E i \in 1..Len(s.log) :
         /\ s.log[i].ev = "end" /\ s.log[i].stage = "supp" /\ s.log[i].recs # <<>>
         /\ s.log[i].q = PhRsa
    /\ \E k \in 1..Len(s.extra) : s.extra[k].activity = PhLiquor
    /\ \E k \in 1..Len(s.extra) : s.extra[k].activity = PhRsa


SchemeHttp == <<"h", "t", "t", "p", ":", "/", "/">>
SchemeHttps == <<"h", "t", "t", "p", "s", ":", "/", "/">>

\* An absolute URL: a scheme, then an authority.
IsAbsoluteUrl(u) ==
  /\ u # Null
  /\ \/ (IsPrefix(SchemeHttp, u) /\ Len(u) > Len(SchemeHttp))
     \/ (IsPrefix(SchemeHttps, u) /\ Len(u) > Len(SchemeHttps))

\* C20: every record parseAblisResults returns has an absolute URL as its
\* source_url, whatever form the href of the segment's first anchor has; a
\* site-relative path such as '/x' becomes the site origin followed by the path.
C20_SourceUrlAbsolute ==
  (calc.op = "parseAblisResults" /\ calc.done)
    => /\ \A k \in 1..Len(calc.out) : IsAbsoluteUrl(calc.out[k].source_url)
       /\ \A i \in 1..Len(calc.in) :
            calc.in[i].href = HrefX
              => \E k \in 1..Len(calc.out) : calc.out[k].source_url = ABLIS_ORIGIN \o HrefX


\* A segment with no title and no regulator once tags are stripped and white
\* space is collapsed, and with no link.
NoContent(chunk) ==
  Falsy(clean(chunk.title)) /\ Falsy(clean(chunk.agency)) /\ Falsy(chunk.href)

\* C21: parseAblisResults discards every segment that has no title, no
\* regulator and no link once cleaned, so that its output is that of the page
\* without those segments, and every record it emits has a non-null
\* obligation, regulator or source_url.
C21_NoContentDiscarded ==
  (calc.op = "parseAblisResults" /\ calc.done)
    => /\ calc.out = parseAblisResults(SelectSeq(calc.in, LAMBDA c : ~NoContent(c)),
                                       ActCafe, Pc3066)
       /\ \A k \in 1..Len(calc.out) :
            \/ calc.out[k].obligation # Null
            \/ calc.out[k].regulator # Null
            \/ calc.out[k].source_url # Null


\* C22: when the browser session fails to start or crashes, a query in
\* progress included, the run is aborted with that failure: it issues no
\* further query and computes no result but goes to the release path with the
\* error as the outcome of its body; a session that did not start leaves
\* nothing to release.
C22_SessionFailureAborts ==
  \A r \in Runs :
    LET s == run[r] IN
    /\ s.session = "crashed" => (s.pc = "finally" /\ s.bodyOut.kind = "error")
    /\ (Ended(s) /\ ~Acquired(s) /\ ValidRequest(s.input))
         => (s.outcome.kind = "error" /\ s.quits = 0 /\ s.log = <<>>)


\* C23: the response of POST /scrape is a 4xx with the envelope ok = false and
\* the message about the missing field when validation failed, a 5xx when the
\* session could not be started, and not an error response when only queries
\* of the run failed.
C23_ResponseClasses ==
  \A r \in Runs :
    LET s == run[r] IN
    s.pc = "done"
      => /\ ~ValidRequest(s.input)
              => /\ s.response.status \in 400..499
                 /\ s.response.body.ok = FALSE
                 /\ s.response.body.error.message
                      = "postcode and activityDescription are required"
         /\ (ValidRequest(s.input) /\ ~Acquired(s)) => s.response.status \in 500..599
         /\ (ValidRequest(s.input) /\ Acquired(s)) => s.response.status \in 200..299


\* C24: the wait for a results indicator never fails the query: after a
\* timeout, as after an indicator, the query goes on to read the page markup,
\* and when that read succeeds the query returns the records parsed from the
\* page, whichever way the wait ended.
C24_TimeoutTolerated ==
  [][\A r \in Runs :
       LET s == run[r] t == run'[r] IN
       /\ (s.qstep = "wait" /\ t # s)
            => /\ t.qstep = "source" /\ t.qwait \in {"indicator", "timeout"}
               /\ t.pc = s.pc /\ t.q = s.q /\ t.log = s.log
               /\ t.allItems = s.allItems /\ t.extra = s.extra
       /\ (s.qstep = "source" /\ t # s /\ t.log[Len(t.log)].ok)
            => /\ s.qwait \in {"indicator", "timeout"}
               /\ Len(t.log) = Len(s.log) + 1
               /\ \E page \in Pages :
                    t.log[Len(t.log)].recs = parseAblisResults(page, s.q, s.input.postcode)
     ]_vars

\* A supplemental query whose wait timed out is about to read the page, after
\* an earlier query of the run returned records.
C24_Witness ==
  \E r \in Runs :
    LET s == run[r] IN
    /\ s.pc = "supp" /\ s.qstep = "source" /\ s.qwait = "timeout"
    /\ s.allItems # <<>>


\* The records the queries of the given stages returned, in the order of a log.
RECURSIVE StageRecords(_, _)
StageRecords(log, stages) ==
  IF log = <<>> THEN <<>>
  ELSE (IF Head(log).ev = "end" /\ Head(log).stage \in stages THEN Head(log).recs ELSE <<>>)
       \o StageRecords(Tail(log), stages)

\* What a run merges, from the responses its own queries got.
OwnItems(log) ==
  StageRecords(log, {"primary", "anzsic"}) \o DedupeRecords(StageRecords(log, {"supp"}))

\* C25: with two requests in flight, under every interleaving, what each run
\* computes is what its own request and the responses to its own queries give
\* when it runs alone; no record of the other run is among its records; and
\* its session is open until its own release, which happens once.
C25_RunsIsolated ==
  \A r \in Runs :
    LET s == run[r] IN
    /\ \A i \in 1..Len(s.log) :
         /\ s.log[i].ev = "issue" => InSeq(s.log[i].q, ExpectedQueries(s.input))
         /\ \A k \in 1..Len(s.log[i].recs) : s.log[i].recs[k].postcode = s.input.postcode
    /\ s.pc \in (QueryStages \cup {"merge", "assemble"})
         => /\ s.allItems = OwnItems(s.log) \/ s.pc = "supp"
            /\ IsPrefix(StageRecords(s.log, {"primary", "anzsic"}), s.allItems)
            /\ Len(s.allItems) <= Len(OwnItems(s.log))
    /\ HasMerged(s)
         => /\ s.deduped = DedupeRecords(OwnItems(s.log))
            /\ s.groups = groupByLevel(s.deduped)
            /\ s.inferredLGA = tryInferLGA(s.deduped)
            /\ \A k \in 1..Len(s.deduped) : s.deduped[k].postcode = s.input.postcode
    /\ s.pc \in (QueryStages \cup {"merge", "assemble", "finally"})
         => (s.session \in {"open", "crashed"} /\ s.quits = 0)
    /\ s.session = "closed" => (s.quits = 1 /\ Ended(s))
    /\ Ended(s) => (s.outcome.kind = "error"
                    /\ s.outcome.name = IF ~Acquired(s) THEN "SessionNotCreatedError"
                                        ELSE "TypeError")

\* The first run has released its session, with records in its buckets, while
\* the second run, which has records of its own, is in the middle of a query
\* on its open session.
C25_Witness ==
  /\ run[1].session = "closed" /\ BucketRecords(run[1].groups) # <<>>
  /\ run[2].pc = "anzsic" /\ run[2].qstep = "source" /\ run[2].session = "open"
  /\ run[2].allItems # <<>>


\* The level C26 names for a segment; a label that is blank once cleaned
\* counts as no label.
C26_LevelOf(chunk) ==
  LET lab == clean(chunk.level)
      reg == clean(chunk.agency)
      ti == clean(chunk.title)
  IN IF Truthy(lab) THEN lab
     ELSE IF LevelHas(reg, KwCouncil) \/ LevelHas(reg, KwShire) \/ LevelHas(reg, KwCityOf)
          THEN KwLocal
     ELSE IF LevelHas(ti, KwState) THEN KwState
     ELSE IF LevelHas(ti, KwCommonwealth) \/ LevelHas(ti, KwFederal) THEN KwFederal
     ELSE Null

\* C26: the record of a segment without a level label has level 'local' when
\* its regulator contains 'council', 'shire' or 'city of', otherwise 'state'
\* when its title contains 'state', otherwise 'federal' when its title contains
\* 'commonwealth' or 'federal', otherwise null; with a level label the level is
\* the cleaned label and nothing is inferred.
C26_LevelInference ==
  (calc.op = "parseAblisResults" /\ calc.done)
    => \A i \in 1..Len(calc.in) :
         ~Skipped(calc.in[i])
           => \E k \in 1..Len(calc.out) :
                /\ calc.out[k].obligation = OrElse(clean(calc.in[i].title), Null)
                /\ calc.out[k].regulator = OrElse(clean(calc.in[i].agency), Null)
                /\ calc.out[k].level = C26_LevelOf(calc.in[i])

\* An unlabelled card of a council whose title names a state got level
\* 'local'.
C26_Witness ==
  /\ calc.op = "parseAblisResults" /\ calc.done
  /\ Len(calc.in) = 1 /\ Len(calc.out) = 1
  /\ calc.in[1].level = Null /\ calc.in[1].agency = TxCouncil /\ calc.in[1].title = TxTax
  /\ calc.out[1].level = KwLocal


\* The text of the first element of a kind in a segment that has one.
FirstOfKind(elems, kind) ==
  elems[CHOOSE i \in 1..Len(elems) :
          elems[i].kind = kind /\ \A j \in 1..(i - 1) : elems[j].kind # kind].text

HasKind(elems, kind) == \E i \in 1..Len(elems) : elems[i].kind = kind

\* C27: the title of a segment is that of its h3 heading when it has one,
\* otherwise that of its h2 heading when it has one, otherwise that of its
\* title-classed link, wherever these elements stand in the segment (an empty
\* title reads as null).
C27_OrderedAlternatives ==
  (calc.op = "textBetween" /\ calc.done)
    => calc.out = IF HasKind(calc.in, "h3") THEN OrElse(FirstOfKind(calc.in, "h3"), Null)
                  ELSE IF HasKind(calc.in, "h2") THEN OrElse(FirstOfKind(calc.in, "h2"), Null)
                  ELSE IF HasKind(calc.in, "a.title")
                       THEN OrElse(FirstOfKind(calc.in, "a.title"), Null)
                  ELSE Null


\* The if statements of lines 58-65, by position.
RuleIndexes == 1..8

\* C28: no integer postcode satisfies the range condition of two of the rules
\* of the table, so the state mapStateFromPostcode returns is the state of
\* whichever rule holds, in any order of evaluation, and null when none holds.
C28_RangesDisjoint ==
  (calc.op = "mapStateFromPostcode" /\ calc.done /\ calc.in.n >= 0)
    => /\ \A j, k \in RuleIndexes :
            (Rule(j, calc.in.n) # Null /\ Rule(k, calc.in.n) # Null) => j = k
       /\ \A k \in RuleIndexes : Rule(k, calc.in.n) # Null => calc.out = Rule(k, calc.in.n)
       /\ (\A k \in RuleIndexes : Rule(k, calc.in.n) = Null) => calc.out = Null

\* The postcode 2619, the first of the NSW range that follows an ACT range,
\* resolved by the third rule alone.
C28_Witness ==
  /\ calc.op = "mapStateFromPostcode" /\ calc.done
  /\ calc.in.n = 2619
  /\ Rule(3, 2619) = calc.out
  /\ \A k \in RuleIndexes \ {3} : Rule(k, 2619) = Null


\* C29: the list a run de-duplicates at the merge, built from per-query
\* de-duplicated records and a de-duplicated supplemental list, is the list
\* that de-duplicating once the concatenation, in issue order, of the items of
\* all its queries as parsed gives: same records, same order, same activity.
C29_DedupeOnceEquivalent ==
  \A r \in Runs :
    HasMerged(run[r]) => run[r].deduped = DedupeRecords(run[r].raw)

\* A merged run in which a query's page held the same card twice and two
\* supplemental phrases returned the same card.
C29_Witness ==
  \E r \in Runs :
    LET s == run[r] IN
    /\ HasMerged(s)
    /\ Len(s.raw) > Len(StageRecords(s.log, QueryStages))
    /\ Len(s.extra) > Len(DedupeRecords(s.extra))
    /\ Len(s.deduped) >= 2

====
